---- MODULE Spec2Model ----
(***************************************************************************)
(* Model of continuum's segmentation class-incremental scenario            *)
(* (src/continuum/scenarios/segmentation.py) and transformation-           *)
(* incremental scenario (src/continuum/scenarios/                          *)
(* transformation_incremental.py).                                         *)
(*                                                                         *)
(* Three specifications share the module:                                  *)
(*   SpecFilter  the module-level function _filter_images, applied to      *)
(*               bounded inputs;                                           *)
(*   SpecSeg     SegmentationClassIncremental: _setup, then __getitem__;   *)
(*   SpecTrans   TransformationIncremental: __init__, then __getitem__,    *)
(*               whose negative-index loop is taken one iteration a step.  *)
(***************************************************************************)
EXTENDS Integers, Sequences, FiniteSets

VARIABLES
    scenario,        \* which of the three programs the behaviour runs
    \* ---- _filter_images / SegmentationClassIncremental
    paths,           \* per sample, the set np.unique(label map) of its classes
    increments,      \* self._increments: classes introduced by each task
    class_order,     \* self.class_order
    mode,            \* self.mode
    filtered,        \* what _filter_images did: [kind, t]
    \* ---- SegmentationClassIncremental
    train,           \* self.cl_dataset.train
    test_background, \* self.test_background
    seg,             \* construction state of the segmentation scenario
    access,          \* the last __getitem__: [kind, index, inverted_order]
    previous,        \* the __getitem__ before it
    \* ---- TransformationIncremental
    ctor_args,       \* the arguments __init__ was called with
    nb_tasks,        \* self._nb_tasks (len(self))
    inc_trsf,        \* self.inc_trsf, as the number of transform chains
    dataset_t,       \* self.dataset[2]: the task-index array
    initial_t,       \* the task-index array as construction left it
    pc,              \* position inside TransformationIncremental.__getitem__
    task_index,      \* the local task_index of the running __getitem__
    requested,       \* the index the running / last __getitem__ was called with:
                     \* [slice, i]
    outcome          \* how the last __getitem__ / __init__ ended

vars == << scenario, paths, increments, class_order, mode, filtered,
           train, test_background, seg, access, previous,
           ctor_args, nb_tasks, inc_trsf, dataset_t, initial_t, pc, task_index,
           requested, outcome >>

filterVars == << paths, increments, class_order, mode, filtered >>
segVars    == << train, test_background, seg, access, previous >>
transVars  == << ctor_args, nb_tasks, inc_trsf, dataset_t, initial_t, pc, task_index,
                 requested, outcome >>

(***************************************************************************)
(* Bounds of the model.                                                    *)
(***************************************************************************)
MaxPaths    == 1      \* most samples given to _filter_images
MaxNbClasses == 3     \* largest nb_classes of a segmentation scenario
MaxSegPaths == 1      \* most samples of a segmentation dataset
MaxTasks    == 4      \* largest nb_tasks of a transformation scenario
MaxIndex    == 5      \* task indexes are drawn from -MaxIndex..MaxIndex
MaxSamples  == 2      \* most samples of a transformation scenario's dataset

(***************************************************************************)
(* Program constants.                                                      *)
(***************************************************************************)
Background == 0
Void       == 255

\* The classes of the small class orders, and the identifiers label maps hold.
RealClasses == {1, 2, 3}
Classes     == {Background, Void} \cup RealClasses
Modes   == {"overlap", "disjoint", "other"}

None == "None"

(***************************************************************************)
(* Python helpers.                                                         *)
(***************************************************************************)
Min(a, b) == IF a < b THEN a ELSE b

\* s[a:b] for 0 <= a, 0 <= b: the slice is cut at the end of the list.
PySlice(s, a, b) ==
    IF a >= Min(b, Len(s)) THEN << >> ELSE SubSeq(s, a + 1, Min(b, Len(s)))

\* set(lst)
Elements(lst) == { lst[k] : k \in 1..Len(lst) }

\* c in lst
PyIn(c, lst) == \E k \in 1..Len(lst) : lst[k] = c

\* sum(lst[:n])
RECURSIVE PySum(_, _)
PySum(lst, n) ==
    IF n <= 0 \/ Len(lst) = 0 THEN 0
    ELSE IF n >= Len(lst) THEN lst[Len(lst)] + PySum(SubSeq(lst, 1, Len(lst) - 1), Len(lst) - 1)
    ELSE PySum(SubSeq(lst, 1, n), n)

\* lst.index(v): 0-based position of the first occurrence
PyIndex(lst, v) ==
    LET found == { k \in 0..(Len(lst) - 1) : lst[k + 1] = v }
    IN  CHOOSE k \in found : \A j \in found : k <= j

(***************************************************************************)
(* _filter_images                                                          *)
(***************************************************************************)
\* FilterCell with the disjoint branch losing its all(...) test.
FilterCell_NoAllTest(classes, labels, all_labels, m) ==
    IF m \in {"overlap", "disjoint"} THEN
        IF \E c \in classes : PyIn(c, labels) THEN "set" ELSE "skip"
    ELSE "raise"

\* FilterCell with the disjoint branch losing its any(...) test.
FilterCell_NoAnyTest(classes, labels, all_labels, m) ==
    IF m = "overlap" THEN
        IF \E c \in classes : PyIn(c, labels) THEN "set" ELSE "skip"
    ELSE IF m = "disjoint" THEN
        IF \A c \in classes : PyIn(c, all_labels) THEN "set" ELSE "skip"
    ELSE "raise"

\* The body of the inner loop for one sample and one task: "set" when
\* t[index, task_id] = 1 is executed, "skip" when the cell is left at its
\* np.zeros value, "raise" for the ValueError of an unknown mode.
FilterCell(classes, labels, all_labels, m) ==
    IF m = "overlap" THEN
        IF \E c \in classes : PyIn(c, labels) THEN "set" ELSE "skip"
    ELSE IF m = "disjoint" THEN
        IF (\E c \in classes : PyIn(c, labels))
           /\ (\A c \in classes : PyIn(c, all_labels)) THEN "set" ELSE "skip"
    ELSE "raise"

\* all_labels built without the classes of earlier tasks.
AllLabels_NoOld(labels, old_labels) == labels \o << Background, Void >>

\* all_labels = labels + old_labels + [0, 255]
AllLabels(labels, old_labels) == labels \o old_labels \o << Background, Void >>

\* The outer loop from task task_id (1-based here) on, with accumulated_inc
\* and the matrix t built so far.
RECURSIVE FilterTasks(_, _, _, _, _, _, _)
FilterTasks(ps, incs, order, m, task_id, accumulated_inc, t) ==
    IF task_id > Len(incs) THEN [kind |-> "return", t |-> t]
    ELSE
        LET inc        == incs[task_id]
            labels     == PySlice(order, accumulated_inc, accumulated_inc + inc)
            old_labels == PySlice(order, 0, accumulated_inc)
            all_labels == AllLabels(labels, old_labels)
            col        == [index \in 1..Len(ps) |->
                             FilterCell(ps[index], labels, all_labels, m)]
        IN  IF \E index \in 1..Len(ps) : col[index] = "raise"
            THEN [kind |-> "raise", t |-> << >>]
            ELSE FilterTasks(ps, incs, order, m, task_id + 1, accumulated_inc + inc,
                     [index \in 1..Len(ps) |->
                        [tid \in 1..Len(incs) |->
                           IF tid = task_id /\ col[index] = "set" THEN 1
                           ELSE t[index][tid]]])

\* _filter_images(paths, increments, class_order, mode)
FilterImages(ps, incs, order, m) ==
    FilterTasks(ps, incs, order, m, 1, 0,
                [index \in 1..Len(ps) |-> [tid \in 1..Len(incs) |-> 0]])

(***************************************************************************)
(* Inputs of _filter_images.                                               *)
(***************************************************************************)
SeqsUpTo(S, n) == UNION { [1..k -> S] : k \in 0..n }

\* Lists of positive increments that sum to total (the increment resolver
\* yields counts summing to len(class_order)).
RECURSIVE Compositions(_)
Compositions(total) ==
    IF total = 0 THEN { << >> }
    ELSE UNION { { << first >> \o rest : rest \in Compositions(total - first) }
                 : first \in 1..total }

ClassSets == SUBSET Classes \ { {} }

\* A class order holds each of its classes once.
NoRepeat(order) == \A i, j \in 1..Len(order) : order[i] = order[j] => i = j
ClassOrders == { order \in SeqsUpTo(RealClasses, Cardinality(RealClasses)) : NoRepeat(order) }

\* list(range(1, nb_classes + 1))
DenseOrder(nb_classes) == [k \in 1..nb_classes |-> k]

\* The smallest nb_classes whose dense class order holds the void identifier,
\* and some increment lists for it.
WideNbClasses  == Void
WideIncrements == { << WideNbClasses >>, << WideNbClasses - 1, 1 >>,
                    << 1, WideNbClasses - 1 >>, << 1, WideNbClasses - 2, 1 >> }
WideClassSets  == { {Void}, {1, Void}, {Background, 2} }

Idle == [kind |-> "none", t |-> << >>]

NoIndex  == [int |-> FALSE, tasks |-> << >>]
NoAccess == [kind |-> "none", index |-> NoIndex, inverted_order |-> << >>]

NoSeg   == /\ train = FALSE /\ test_background = FALSE /\ seg = "unused"
           /\ access = NoAccess /\ previous = NoAccess
NoArgs    == [nb_tasks |-> 0, given |-> FALSE, chains |-> 0]
NoRequest == [slice |-> FALSE, i |-> 0]

NoTrans == /\ ctor_args = NoArgs /\ nb_tasks = 0 /\ inc_trsf = 0 /\ dataset_t = << >>
           /\ initial_t = << >> /\ pc = "unused" /\ task_index = 0
           /\ requested = NoRequest /\ outcome = None

InitFilter ==
    /\ scenario = "filter"
    /\ \/ /\ class_order \in ClassOrders
          /\ increments \in Compositions(Len(class_order))
          /\ paths \in SeqsUpTo(ClassSets, MaxPaths)
       \/ /\ class_order = DenseOrder(WideNbClasses)
          /\ increments \in WideIncrements
          /\ paths \in SeqsUpTo(WideClassSets, MaxPaths)
    /\ mode \in Modes
    /\ filtered = Idle
    /\ NoSeg
    /\ NoTrans

CallFilterImages ==
    /\ scenario = "filter"
    /\ filtered.kind = "none"
    /\ filtered' = FilterImages(paths, increments, class_order, mode)
    /\ UNCHANGED << scenario, paths, increments, class_order, mode >>
    /\ UNCHANGED segVars
    /\ UNCHANGED transVars

NextFilter == CallFilterImages

SpecFilter == InitFilter /\ [][NextFilter]_vars

(***************************************************************************)
(* SegmentationClassIncremental                                            *)
(***************************************************************************)
\* A normalised task index as _select_data_by_task returns it: an int, or
\* the list of the task indexes of a slice. Task indexes are 0-based.
IntIndex(t)          == [int |-> TRUE, tasks |-> << t >>]
ListIndex(start, stop) == [int |-> FALSE, tasks |-> [k \in 1..(stop - start) |-> start + k - 1]]

\* _get_task_labels with previous_inc one task too far.
GetTaskLabels_OffByOne(task_indexes, incs, order) ==
    UNION { Elements(PySlice(order, PySum(incs, t + 1), PySum(incs, t + 1) + incs[t + 1]))
            : t \in Elements(task_indexes.tasks) }

\* _get_task_labels: the set of the labels of the selected tasks.
GetTaskLabels(task_indexes, incs, order) ==
    LET slice(t) == LET previous_inc == PySum(incs, t)
                    IN  PySlice(order, previous_inc, previous_inc + incs[t + 1])
    IN  UNION { Elements(slice(t)) : t \in Elements(task_indexes.tasks) }

\* The dictionary with the test-mode entries keyed the wrong way round.
InvertedOrder_Swapped(labels, order, is_train, test_bg) ==
    LET base == [label \in labels |-> PyIndex(order, label)]
    IN  IF is_train THEN base
        ELSE [v \in labels \cup {0, 255} |->
                IF v = 255 THEN (IF test_bg THEN 0 ELSE 255)
                ELSE IF v = 0 THEN 255
                ELSE base[v]]

\* inverted_order, a dictionary: label -> class_order.index(label), and in
\* test mode the entries for 0 and 255 written over it.
InvertedOrder(labels, order, is_train, test_bg) ==
    LET base == [label \in labels |-> PyIndex(order, label)]
    IN  IF is_train THEN base
        ELSE [v \in labels \cup {0, 255} |->
                IF v = 255 THEN 255
                ELSE IF v = 0 THEN (IF test_bg THEN 0 ELSE 255)
                ELSE base[v]]

\* lambda v: inverted_order.get(v, 0)
Remap(inverted_order, v) ==
    IF v \in DOMAIN inverted_order THEN inverted_order[v] ELSE 0

\* The label maps of the samples of a segmentation dataset.
SegClassSets == { {0, 1}, {0, 1, 2}, {2, 255} }

NoFilter == /\ paths = << >> /\ increments = << >> /\ class_order = << >>
            /\ mode = None /\ filtered = Idle

\* The arguments of SegmentationClassIncremental.__init__ and the dataset.
InitSeg ==
    /\ scenario = "segmentation"
    /\ \/ \E nb_classes \in 0..MaxNbClasses :
            /\ class_order = DenseOrder(nb_classes)
            /\ increments \in Compositions(nb_classes)
          /\ paths \in SeqsUpTo(SegClassSets, MaxSegPaths)
          /\ mode \in Modes
       \/ /\ class_order = DenseOrder(WideNbClasses)
          /\ increments = << WideNbClasses - 1, 1 >>
          /\ paths = << {1, Void} >>
          /\ mode = "overlap"
    /\ train \in BOOLEAN
    /\ test_background \in BOOLEAN
    /\ filtered = Idle
    /\ seg = "new"
    /\ access = NoAccess
    /\ previous = NoAccess
    /\ NoTrans

\* _setup: the membership matrix is computed; an error of _filter_images
\* ends the construction.
Setup ==
    /\ scenario = "segmentation"
    /\ seg = "new"
    /\ filtered' = FilterImages(paths, increments, class_order, mode)
    /\ seg' = IF filtered'.kind = "return" THEN "ready" ELSE "failed"
    /\ UNCHANGED << scenario, paths, increments, class_order, mode,
                    train, test_background, access, previous >>
    /\ UNCHANGED transVars

\* What __getitem__ does once _select_data_by_task has returned task_index.
GetItemResult(task_indexes) ==
    IF mode \in {"overlap", "disjoint"} THEN
        [kind |-> "taskset", index |-> task_indexes,
         inverted_order |-> InvertedOrder(GetTaskLabels(task_indexes, increments, class_order),
                                          class_order, train, test_background)]
    ELSE \* label_trsf is read without having been assigned
        [kind |-> "raise", index |-> task_indexes, inverted_order |-> << >>]

\* scenario[t] for a valid task index, or scenario[start:stop] for a slice
\* without step naming valid tasks.
GetItem ==
    /\ scenario = "segmentation"
    /\ seg = "ready"
    /\ \E q \in { IntIndex(t) : t \in 0..(Len(increments) - 1) }
              \cup { ListIndex(a, b) : a \in 0..(Len(increments) - 1), b \in 1..Len(increments) } :
         /\ q.tasks # << >>
         /\ access' = GetItemResult(q)
    /\ previous' = access
    /\ UNCHANGED << scenario, seg, train, test_background >>
    /\ UNCHANGED filterVars
    /\ UNCHANGED transVars

\* scenario[a:b:step]: rejected before anything is selected.
GetItemSteppedSlice ==
    /\ scenario = "segmentation"
    /\ seg = "ready"
    /\ access' = [kind |-> "raise", index |-> NoIndex, inverted_order |-> << >>]
    /\ previous' = access
    /\ UNCHANGED << scenario, seg, train, test_background >>
    /\ UNCHANGED filterVars
    /\ UNCHANGED transVars

NextSeg == Setup \/ GetItem \/ GetItemSteppedSlice

SpecSeg == InitSeg /\ [][NextSeg]_vars

(***************************************************************************)
(* TransformationIncremental                                               *)
(***************************************************************************)
\* __init__ accepting any number of transform chains.
ArgsAccepted_NoCountCheck(n, given, chains) == given

\* The two checks of __init__: the list is not None, and holds one chain a task.
ArgsAccepted(n, given, chains) == given /\ n = chains

\* update_task_indexes leaving the first entry as it was.
UpdateTaskIndexes_KeepFirst(t, ti) ==
    [k \in 1..Len(t) |-> IF k = 1 THEN t[k] ELSE ti]

\* update_task_indexes: new_t = np.ones(len(self.dataset[1])) * task_index
UpdateTaskIndexes(t, ti) == [k \in 1..Len(t) |-> 1 * ti]

\* The loop body adding one instead of the number of tasks.
WrapStep_AddOne(ti, n) == ti + 1

\* task_index += len(self)
WrapStep(ti, n) == ti + n

\* get_task_transformation: self.inc_trsf[task_index] for task_index >= 0
ChainLookup(chains, ti) == IF ti < chains THEN "TaskSet" ELSE "IndexError"

InitTrans ==
    /\ scenario = "transformation"
    /\ NoFilter
    /\ NoSeg
    /\ ctor_args = NoArgs
    /\ nb_tasks = 0
    /\ inc_trsf = 0
    /\ dataset_t = << >>
    /\ initial_t = << >>
    /\ pc = "new"
    /\ task_index = 0
    /\ requested = NoRequest
    /\ outcome = None

\* TransformationIncremental(cl_dataset, nb_tasks, incremental_transformations),
\* t0 being the task-index array the base scenario's _setup leaves.
Construct ==
    /\ scenario = "transformation"
    /\ pc = "new"
    /\ \E n \in 1..MaxTasks, given \in BOOLEAN, chains \in 0..MaxTasks :
         /\ (~given => chains = 0)
         /\ ctor_args' = [nb_tasks |-> n, given |-> given, chains |-> chains]
         /\ IF ArgsAccepted(n, given, chains)
            THEN /\ \E t0 \in SeqsUpTo(0..(n - 1), MaxSamples) :
                       /\ dataset_t' = t0
                       /\ initial_t' = t0
                 /\ inc_trsf' = chains
                 /\ nb_tasks' = n
                 /\ pc' = "idle"
                 /\ outcome' = "constructed"
            ELSE /\ pc' = "failed"
                 /\ outcome' = "ValueError"
                 /\ UNCHANGED << dataset_t, initial_t, inc_trsf, nb_tasks >>
    /\ UNCHANGED << scenario, task_index, requested >>
    /\ UNCHANGED filterVars
    /\ UNCHANGED segVars

\* Lines 70-74 with the transform chain looked up before the array is written.
Finish_LookupFirst(ti) ==
    /\ task_index' = ti
    /\ dataset_t' = IF ChainLookup(inc_trsf, ti) = "TaskSet"
                    THEN UpdateTaskIndexes(dataset_t, ti) ELSE dataset_t
    /\ outcome' = ChainLookup(inc_trsf, ti)
    /\ pc' = "idle"

\* Lines 70-74 for a non-negative task_index: the task-index array is
\* rewritten, then the transform chain of the task is looked up.
Finish(ti) ==
    /\ task_index' = ti
    /\ dataset_t' = UpdateTaskIndexes(dataset_t, ti)
    /\ outcome' = ChainLookup(inc_trsf, ti)
    /\ pc' = "idle"

\* scenario[a:b]
GetItemSlice ==
    /\ scenario = "transformation"
    /\ pc = "idle"
    /\ requested' = [slice |-> TRUE, i |-> 0]
    /\ outcome' = "ValueError"
    /\ UNCHANGED << scenario, ctor_args, nb_tasks, inc_trsf, dataset_t, initial_t,
                    pc, task_index >>
    /\ UNCHANGED filterVars
    /\ UNCHANGED segVars

\* scenario[i] for an int i: a negative i enters the while loop.
GetItemInt ==
    /\ scenario = "transformation"
    /\ pc = "idle"
    /\ \E i \in (0 - MaxIndex)..MaxIndex :
         /\ requested' = [slice |-> FALSE, i |-> i]
         /\ IF i < 0
            THEN /\ task_index' = i
                 /\ pc' = "wrap"
                 /\ outcome' = "running"
                 /\ UNCHANGED dataset_t
            ELSE Finish(i)
    /\ UNCHANGED << scenario, ctor_args, nb_tasks, inc_trsf, initial_t >>
    /\ UNCHANGED filterVars
    /\ UNCHANGED segVars

\* One iteration of: while task_index < 0: task_index += len(self)
WrapAdd ==
    /\ scenario = "transformation"
    /\ pc = "wrap"
    /\ task_index < 0
    /\ task_index' = WrapStep(task_index, nb_tasks)
    /\ UNCHANGED << scenario, ctor_args, nb_tasks, inc_trsf, dataset_t, initial_t,
                    pc, requested, outcome >>
    /\ UNCHANGED filterVars
    /\ UNCHANGED segVars

\* The loop condition fails: the access goes on from line 70.
WrapExit ==
    /\ scenario = "transformation"
    /\ pc = "wrap"
    /\ task_index >= 0
    /\ Finish(task_index)
    /\ UNCHANGED << scenario, ctor_args, nb_tasks, inc_trsf, initial_t, requested >>
    /\ UNCHANGED filterVars
    /\ UNCHANGED segVars

NextTrans == Construct \/ GetItemSlice \/ GetItemInt \/ WrapAdd \/ WrapExit

\* A running __getitem__ keeps running: the program is single-threaded and
\* nothing pre-empts the loop.
SpecTrans ==
    /\ InitTrans
    /\ [][NextTrans]_vars
    /\ WF_vars(WrapAdd)
    /\ WF_vars(WrapExit)

(***************************************************************************)
(* The three programs together.                                            *)
(***************************************************************************)
Init == InitFilter \/ InitSeg \/ InitTrans
Next == NextFilter \/ NextSeg \/ NextTrans
Spec == Init /\ [][Next]_vars

(***************************************************************************)
(* The membership rule as the specification words it: task slices by       *)
(* prefix sums of the increments, as sets of classes.                      *)
(***************************************************************************)
RECURSIVE ClassesBefore(_, _)
ClassesBefore(incs, t) == IF t <= 1 THEN 0 ELSE ClassesBefore(incs, t - 1) + incs[t - 1]

TaskSlice(order, incs, t) ==
    { order[k] : k \in { j \in 1..Len(order) :
                           /\ ClassesBefore(incs, t) < j
                           /\ j <= ClassesBefore(incs, t) + incs[t] } }

EarlierClasses(order, incs, t) == UNION { TaskSlice(order, incs, u) : u \in 1..(t - 1) }

Cumulative(order, incs, t) ==
    TaskSlice(order, incs, t) \cup EarlierClasses(order, incs, t) \cup {0, 255}

Belongs(m, classes, order, incs, t) ==
    IF m = "overlap" THEN classes \cap TaskSlice(order, incs, t) # {}
    ELSE /\ classes \cap TaskSlice(order, incs, t) # {}
         /\ classes \subseteq Cumulative(order, incs, t)

Returned == scenario = "filter" /\ filtered.kind = "return"
Row(s)   == filtered.t[s]
Tasks    == 1..Len(increments)
Samples  == 1..Len(paths)
AssignedTasks(s) == { t \in Tasks : Row(s)[t] = 1 }

\* C1: in modes "overlap" and "disjoint" _filter_images returns a matrix whose
\* cell [s,t] is 1 exactly when the class set of s intersects the slice of t
\* (overlap), or intersects it and lies within slice of t, earlier classes and
\* {0, 255} (disjoint); every other cell is 0.
C1_CellRule ==
    (scenario = "filter" /\ mode \in {"overlap", "disjoint"} /\ filtered.kind # "none")
    => /\ filtered.kind = "return"
       /\ \A s \in Samples : \A t \in Tasks :
             Row(s)[t] = IF Belongs(mode, paths[s], class_order, increments, t)
                         THEN 1 ELSE 0

\* C1 witness: a disjoint run over two tasks with a cell set and a cell that the
\* inclusion test alone left at 0.
C1_Witness ==
    /\ Returned /\ mode = "disjoint" /\ class_order = << 2, 1 >> /\ Len(increments) = 2
    /\ \E s \in Samples :
         /\ Row(s)[2] = 1 /\ Row(s)[1] = 0
         /\ paths[s] \cap TaskSlice(class_order, increments, 1) # {}

\* C2 as stated: in mode "disjoint", class 1 introduced by task 0 and class 2
\* by task 1, a sample with classes {1,2} has an all-zero row.
C2_NeitherTask ==
    (Returned /\ mode = "disjoint" /\ class_order = << 1, 2 >> /\ increments = << 1, 1 >>)
    => \A s \in Samples : paths[s] = {1, 2} => Row(s) = << 0, 0 >>

\* C2 amended: that sample is left out of task 0 and assigned to task 1, whose
\* all_labels holds class 1 as an old label.
C2_SecondTaskOnly ==
    (Returned /\ mode = "disjoint" /\ class_order = << 1, 2 >> /\ increments = << 1, 1 >>)
    => \A s \in Samples : paths[s] = {1, 2} => Row(s) = << 0, 1 >>

C2_Witness ==
    /\ Returned /\ mode = "disjoint" /\ class_order = << 1, 2 >> /\ increments = << 1, 1 >>
    /\ \E s \in Samples : paths[s] = {1, 2}

\* C3 as stated: with a mode other than "overlap" or "disjoint", _filter_images
\* raises for every input and never returns a matrix.
C3_UnknownModeRaises ==
    (scenario = "filter" /\ mode \notin {"overlap", "disjoint"} /\ filtered.kind # "none")
    => filtered.kind = "raise"

\* The disjoint-mode "earliest task" rule for one class order.
EarliestRule ==
    \A s \in Samples :
        /\ Cardinality(AssignedTasks(s)) <= 1
        /\ \A t \in AssignedTasks(s) :
              /\ paths[s] \subseteq Cumulative(class_order, increments, t)
              /\ \A u \in 1..(t - 1) :
                    ~(paths[s] \subseteq Cumulative(class_order, increments, u))
        /\ (paths[s] \subseteq {0, 255} => AssignedTasks(s) = {})

\* C4 as stated: in mode "disjoint" with a class order without repeated classes,
\* a sample is assigned to at most one task, that task being the earliest whose
\* cumulative class set holds all its classes, and a sample of only 0 / 255 is
\* assigned to no task.
C4_EarliestTask ==
    (Returned /\ mode = "disjoint" /\ NoRepeat(class_order)) => EarliestRule

\* C4 amended: the same, for a class order that also holds neither 0 nor 255.
C4_EarliestTaskNoReserved ==
    (Returned /\ mode = "disjoint" /\ NoRepeat(class_order)
       /\ ~PyIn(0, class_order) /\ ~PyIn(255, class_order))
    => EarliestRule

\* C4 witness: a sample with background and two classes goes to the last of
\* three tasks only, the first whose cumulative classes hold both.
C4_Witness ==
    /\ Returned /\ mode = "disjoint" /\ class_order = << 2, 3, 1 >>
    /\ increments = << 1, 1, 1 >>
    /\ \E s \in Samples : paths[s] = {0, 1, 2} /\ AssignedTasks(s) = {3}

(***************************************************************************)
(* The label remap as the specification words it.                          *)
(***************************************************************************)
Built == scenario = "segmentation" /\ access.kind = "taskset"

\* Raw identifiers a label map may hold.
RawValues == 0..(MaxNbClasses + 1) \cup {254, 255}

SelectedTasks == { access.index.tasks[j] + 1 : j \in 1..Len(access.index.tasks) }
SelectedClasses == UNION { TaskSlice(class_order, increments, t) : t \in SelectedTasks }
Position(v) == CHOOSE k \in 0..(Len(class_order) - 1) : class_order[k + 1] = v

\* C5: in test mode the remap sends 0 to 255 without test_background and to 0
\* with it, and sends 255 to 255, whatever the queried tasks are.
C5_TestRemap ==
    (Built /\ ~train)
    => /\ Remap(access.inverted_order, 0) = (IF test_background THEN 0 ELSE 255)
       /\ Remap(access.inverted_order, 255) = 255

\* C5 witness: a test-mode access to a slice of two tasks, one of which owns
\* class 255.
C5_Witness ==
    /\ Built /\ ~train /\ ~test_background /\ Len(increments) >= 2
    /\ ~access.index.int /\ Len(access.index.tasks) = 2
    /\ 255 \in SelectedClasses
    /\ Remap(access.inverted_order, 0) = 255
    /\ Remap(access.inverted_order, 255) = 255

\* C6: in train mode the remap sends each class of the selected tasks to its
\* 0-based position in the class order and everything else to 0, and two
\* accesses in a row to the same index build the same remap.
C6_TrainRemap ==
    (Built /\ train)
    => /\ \A v \in RawValues :
            Remap(access.inverted_order, v) =
                IF v \in SelectedClasses THEN Position(v) ELSE 0
       /\ (previous.kind = "taskset" /\ previous.index = access.index)
            => previous.inverted_order = access.inverted_order

C6_Witness ==
    /\ Built /\ train /\ Len(increments) = 2 /\ Len(class_order) = 3
    /\ access.index = IntIndex(1)
    /\ previous.kind = "taskset" /\ previous.index = access.index
    /\ Remap(access.inverted_order, 3) = 2
    /\ Remap(access.inverted_order, 1) = 0

(***************************************************************************)
(* TransformationIncremental: the task-index array and the index.          *)
(***************************************************************************)
Constructed == scenario = "transformation" /\ pc \in {"idle", "wrap"}
Succeeded   == Constructed /\ pc = "idle" /\ outcome = "TaskSet"

\* C7: once an access with a valid integer index has returned, the task-index
\* array has nb_samples entries, each the resolved index of that access.
C7_ArrayIsLastTask ==
    Succeeded
    => /\ Len(dataset_t) = Len(initial_t)
       /\ task_index \in 0..(nb_tasks - 1)
       /\ task_index = requested.i % nb_tasks
       /\ \A k \in 1..Len(dataset_t) : dataset_t[k] = task_index

\* C7 witness: the array held another task before and holds the last one now.
C7_Witness ==
    /\ Succeeded /\ Len(dataset_t) = 2 /\ nb_tasks = 3
    /\ initial_t = << 0, 2 >> /\ dataset_t = << 1, 1 >> /\ requested.i = 1

\* The safety part of C8: inside the loop task_index stays congruent to the
\* requested index and below the number of tasks; a negative index resolves to
\* the one value of 0..n-1 congruent to it, so -1 and -5 give 3 with 4 tasks.
WrapInvariant ==
    /\ (scenario = "transformation" /\ pc = "wrap")
         => /\ requested.i < 0
            /\ task_index < nb_tasks
            /\ task_index % nb_tasks = requested.i % nb_tasks
    /\ (Constructed /\ pc = "idle" /\ ~requested.slice /\ requested.i < 0)
         => /\ task_index \in 0..(nb_tasks - 1)
            /\ task_index % nb_tasks = requested.i % nb_tasks
            /\ outcome = "TaskSet"
            /\ (nb_tasks = 4 /\ requested.i \in {0 - 1, 0 - 5} => task_index = 3)

\* C8: with n >= 1 tasks a negative index is resolved by adding n until it is
\* non-negative, the loop ends, and the result is the value of 0..n-1 congruent
\* to the index modulo n (3 for -1 and for -5 with 4 tasks).
C8_NegativeWrap ==
    /\ []WrapInvariant
    /\ ((scenario = "transformation" /\ pc = "wrap") ~> (pc = "idle"))

C8_Witness ==
    /\ Constructed /\ pc = "idle" /\ nb_tasks = 4
    /\ requested = [slice |-> FALSE, i |-> 0 - 5] /\ task_index = 3
    /\ outcome = "TaskSet"

\* C9: a construction without the transformation list, or with a number of
\* chains other than nb_tasks, ends in a ValueError; no scenario exists, so no
\* access has happened and no task-index array has been written.
C9_BadArgsRejected ==
    (scenario = "transformation" /\ pc # "new"
       /\ (~ctor_args.given \/ ctor_args.nb_tasks # ctor_args.chains))
    => /\ pc = "failed"
       /\ outcome = "ValueError"
       /\ requested = NoRequest
       /\ dataset_t = << >>

C9_Witness ==
    /\ scenario = "transformation" /\ pc = "failed"
    /\ ctor_args = [nb_tasks |-> 3, given |-> TRUE, chains |-> 2]

\* C10 as stated: whatever accesses were made, every entry of the task-index
\* array is its construction-time value or an index of 0..nb_tasks-1 (an access
\* that ends in an error has left the array alone).
C10_ErrorLeavesArray ==
    Constructed
    => \A k \in 1..Len(dataset_t) :
          dataset_t[k] = initial_t[k] \/ dataset_t[k] \in 0..(nb_tasks - 1)


\* C10 amended, step by step: an access that ends in an error has left the
\* array alone when the index was a slice, and has written the index into
\* every entry when it was an integer >= nb_tasks.
FailedAccessStep ==
    (Constructed /\ pc' = "idle" /\ outcome' \in {"ValueError", "IndexError"})
    => IF requested'.slice
       THEN outcome' = "ValueError" /\ dataset_t' = dataset_t
       ELSE /\ outcome' = "IndexError"
            /\ requested'.i >= nb_tasks
            /\ dataset_t' = [k \in 1..Len(dataset_t) |-> requested'.i]

\* C10 amended, in every state: an integer access at or past nb_tasks ends in
\* an IndexError, and every entry of the array is its construction-time value
\* or a non-negative index an access wrote, which may be nb_tasks or more.
ArrayEntries ==
    Constructed
    => /\ (pc = "idle" /\ ~requested.slice /\ requested.i >= nb_tasks)
            => outcome = "IndexError"
       /\ \A k \in 1..Len(dataset_t) :
             dataset_t[k] = initial_t[k] \/ dataset_t[k] \in 0..MaxIndex

\* C10 amended: a slice-typed index leaves the task-index array unchanged; an
\* integer index >= nb_tasks overwrites every entry with that index before the
\* transform-chain lookup fails.
C10_FailedAccessWrites ==
    /\ [][FailedAccessStep]_vars
    /\ []ArrayEntries

C10_Witness ==
    /\ Constructed /\ pc = "idle" /\ outcome = "IndexError" /\ nb_tasks = 2
    /\ initial_t = << 0, 1 >> /\ dataset_t = << 2, 2 >>

====
